---- MODULE Spec2Model ----
(***************************************************************************)
(* Model of tools/benchmark_profile/benchmark_profile.cu: an NVBit tool    *)
(* that instruments every launched kernel once, serialises kernel launches *)
(* with one mutex and folds the device-side counters into host totals at   *)
(* each launch exit.                                                       *)
(***************************************************************************)
EXTENDS Integers, Sequences, FiniteSets, TLC

(* ------------------------------ bounds --------------------------------- *)
\* driver calls (launches of either kind) the host issues in one run
MaxLaunches == 3
\* lanes of the one warp every modelled kernel runs
ActiveThreads == 2

\* largest value of the narrowed unsigned type that stands for uint32_t:
\* above every instruction index and launch ordinal of the model, it is the
\* default of INSTR_END and END_GRID_NUM (UINT32_MAX in the source)
UintMax == 15

\* host threads issuing driver calls, and the value of a free mutex
Threads == {1, 2}
NoThread == 0

\* the four device-side counters / host totals, by category
Cats == {"instr", "indirect", "shfl", "ballot"}
ZeroVec == [c \in Cats |-> 0]

(* --------------------- the instrumented application -------------------- *)
\* kernels the host may launch, and the device function both of them call
Kernels == {"k1", "k2"}
Funcs == Kernels \cup {"dev", "k10", "kv"}

\* threads of a full warp
WarpSize == 32

\* one decoded instruction: static index, opcode, short opcode, SASS text
\* (the opcode, a blank, the operands), lanes executing it and lanes whose
\* guard predicate is true
Ins(idx, opcode, short, sass, predOn) ==
    [idx |-> idx, opcode |-> opcode, opcodeShort |-> short, sass |-> sass,
     lanes |-> ActiveThreads, predOn |-> predOn]

Plain(idx) == Ins(idx, "MOV", "MOV", <<"M", "O", "V", " ", "R", "1">>, ActiveThreads)

\* nvbit_get_instrs: the instruction vector of each function
nvbit_get_instrs(f) ==
    CASE f = "k1" ->
           << Ins(0, "CALL.ABS", "CALL", <<"C", "A", "L", "L", ".", "A", "B", "S", " ", "R", "4">>, ActiveThreads),
              Ins(1, "SHFL.IDX", "SHFL", <<"S", "H", "F", "L", ".", "I", "D", "X", " ", "P", "T">>, ActiveThreads) >>
      [] f = "k2" ->
           << Ins(0, "VOTE.BALL", "VOTE", <<"V", "O", "T", "E", ".", "B", "A", "L", "L", " ", "R", "2">>, ActiveThreads),
              Ins(1, "CALL.ABS", "CALL", <<"C", "A", "L", "L", ".", "A", "B", "S", " ", "0", "x">>, 1),
              Plain(2) >>
      [] f = "dev" ->
           << Ins(0, "IADD", "IADD", <<"I", "A", "D", "D", " ", "R", "0">>, 0) >>
      [] f = "k10" -> [i \in 1..10 |-> Plain(i - 1)]
      [] f = "kv" ->
           << [Ins(0, "VOTE.BALL", "VOTE", <<"V", "O", "T", "E", ".", "B", "A", "L", "L", " ", "R", "2">>, WarpSize)
                  EXCEPT !.lanes = WarpSize] >>

\* nvbit_get_related_functions: device functions a kernel can call
nvbit_get_related_functions(f) ==
    IF f \in Kernels THEN <<"dev">> ELSE <<>>

(* ------------------------------ state ---------------------------------- *)
VARIABLES
    \* configuration, read once by nvbit_at_init
    instr_begin_interval, instr_end_interval, start_grid_num, end_grid_num,
    count_warp_level, exclude_pred_off, active_from_start,
    \* host globals
    kernel_id, total_instr, total_cg, total_indirect, total_shfl, total_ballot,
    active_region, mutex, already_instrumented,
    \* managed (device-updated) counters
    instr_counter, shfl_counter, ballot_counter, indirect_counter,
    \* NVBit's state: probes inserted before each instruction, and the
    \* variant (instrumented or original) selected for each function
    probes, enabled,
    \* host threads: position, the driver call in progress, the register
    \* holding total_cg during its read-modify-write
    pc, call, cg_reg,
    \* device: the kernel each thread's launch put in flight
    kernel,
    \* history: driver calls issued, regular launch entries in order,
    \* counter values read at each regular exit, probe increments by origin,
    \* all probe increments so far and their value at each thread's entry,
    \* cooperative exits completed, last profiler signal
    launches, hist, folds, origin, events, mark, cg_exited, last_signal,
    \* the process: the summary nvbit_at_term printed, and whether a device
    \* synchronisation has failed
    report, device_error

config == <<instr_begin_interval, instr_end_interval, start_grid_num,
            end_grid_num, count_warp_level, exclude_pred_off, active_from_start>>
totals == <<total_instr, total_indirect, total_shfl, total_ballot>>
counters == <<instr_counter, shfl_counter, ballot_counter, indirect_counter>>
nvbit == <<probes, enabled, already_instrumented>>
history == <<launches, hist, folds, origin, events, mark, cg_exited, last_signal>>

process == <<report, device_error>>

vars == <<config, kernel_id, totals, total_cg, active_region, mutex, counters,
          nvbit, pc, call, cg_reg, kernel, history, process>>

\* the managed counters and the totals as vectors indexed by category
CounterVec == [c \in Cats |->
    CASE c = "instr" -> instr_counter
      [] c = "indirect" -> indirect_counter
      [] c = "shfl" -> shfl_counter
      [] c = "ballot" -> ballot_counter]

TotalVec == [c \in Cats |->
    CASE c = "instr" -> total_instr
      [] c = "indirect" -> total_indirect
      [] c = "shfl" -> total_shfl
      [] c = "ballot" -> total_ballot]

NoKernel == [func |-> "none", instrumented |-> FALSE, kpc |-> 0]
NoCall == [func |-> "none", cbid |-> "none"]
NoReport == <<>>

(* --------------------------- configuration ----------------------------- *)
\* values of INSTR_BEGIN/INSTR_END and START_GRID_NUM/END_GRID_NUM tried,
\* the defaults among them
InstrIntervals == {<<0, UintMax>>, <<1, 2>>, <<2, 1>>}
GridIntervals == {<<0, UintMax>>, <<0, 1>>, <<1, 2>>}

\* the initialisation without its test: active_region keeps its initialiser
init_region_untouched(afs) == TRUE

\* nvbit_at_init: active_region starts false when ACTIVE_FROM_START=0
nvbit_at_init(afs) == IF afs = 0 THEN FALSE ELSE TRUE

InitState ==
    /\ kernel_id = 0
    /\ total_instr = 0 /\ total_cg = 0 /\ total_indirect = 0
    /\ total_shfl = 0 /\ total_ballot = 0
    /\ instr_counter = 0 /\ shfl_counter = 0
    /\ ballot_counter = 0 /\ indirect_counter = 0
    /\ active_region = nvbit_at_init(active_from_start)
    /\ mutex = NoThread
    /\ already_instrumented = {}
    /\ probes = [f \in Funcs |-> [i \in DOMAIN nvbit_get_instrs(f) |-> <<>>]]
    /\ enabled = [f \in Funcs |-> FALSE]
    /\ pc = [t \in Threads |-> "idle"]
    /\ call = [t \in Threads |-> NoCall]
    /\ cg_reg = [t \in Threads |-> 0]
    /\ kernel = [t \in Threads |-> NoKernel]
    /\ launches = 0
    /\ hist = <<>>
    /\ folds = <<>>
    /\ origin = [t \in Threads |-> ZeroVec]
    /\ events = ZeroVec
    /\ mark = [t \in Threads |-> ZeroVec]
    /\ cg_exited = 0
    /\ last_signal = "none"
    /\ report = NoReport
    /\ device_error = FALSE

\* a run with the default instruction interval and counting flags, every
\* launch interval and both region modes
Init ==
    /\ instr_begin_interval = 0 /\ instr_end_interval = UintMax
    /\ \E gv \in GridIntervals :
          start_grid_num = gv[1] /\ end_grid_num = gv[2]
    /\ count_warp_level = 1
    /\ exclude_pred_off = 0
    /\ active_from_start \in {0, 1}
    /\ InitState

\* a run with every instruction interval and counting flag, the default
\* launch interval and region mode
InitInstr ==
    /\ \E iv \in InstrIntervals :
          instr_begin_interval = iv[1] /\ instr_end_interval = iv[2]
    /\ start_grid_num = 0 /\ end_grid_num = UintMax
    /\ count_warp_level \in {0, 1}
    /\ exclude_pred_off \in {0, 1}
    /\ active_from_start = 1
    /\ InitState

\* the scenario of three launches of one ten-instruction kernel:
\* INSTR_BEGIN=0, INSTR_END=max, ACTIVE_FROM_START=1, START_GRID_NUM=0,
\* END_GRID_NUM=1, the counting flags free
InitScenario ==
    /\ instr_begin_interval = 0 /\ instr_end_interval = UintMax
    /\ start_grid_num = 0 /\ end_grid_num = 1
    /\ count_warp_level = 1
    /\ exclude_pred_off \in {0, 1}
    /\ active_from_start = 1
    /\ InitState

\* the scenario of a kernel of one VOTE.BALL instruction run by a full
\* warp, every launch in the active region, the counting flags free
InitBallot ==
    /\ instr_begin_interval = 0 /\ instr_end_interval = UintMax
    /\ start_grid_num = 0 /\ end_grid_num = UintMax
    /\ count_warp_level \in {0, 1}
    /\ exclude_pred_off \in {0, 1}
    /\ active_from_start = 1
    /\ InitState

(* ------------------------ instruction classifier ----------------------- *)
\* std::string::find of a one-character string
Contains(s, ch) == \E k \in DOMAIN s : s[k] = ch

\* the interval test with its lower bound forgotten
EligibleNoLower(i) == i.idx < instr_end_interval

\* the indirect-call test with the search of the SASS text left out
IsIndirectOpcodeOnly(i) == i.opcode = "CALL.ABS"

\* the instruction falls in the interval where we want to instrument
Eligible(i) ==
    i.idx >= instr_begin_interval /\ i.idx < instr_end_interval

IsIndirect(i) == i.opcode = "CALL.ABS" /\ Contains(i.sass, "R")
IsShfl(i) == i.opcodeShort = "SHFL"
IsBallot(i) == i.opcode = "VOTE.BALL"

(* ------------------------- function instrumentor ----------------------- *)
\* the guard argument with exclude_pred_off ignored: always the constant 1
GuardAlwaysTrue == [kind |-> "const_val32", val |-> 1]

\* first argument of a probe: the guard predicate value, or the constant 1
GuardArg ==
    IF exclude_pred_off # 0
    THEN [kind |-> "guard_pred_val", val |-> 0]
    ELSE [kind |-> "const_val32", val |-> 1]

\* the call with the constant 1 passed in place of count_warp_level
InsertCallWarpOnly(c) ==
    [func |-> "count_instrs", ipoint |-> "IPOINT_BEFORE",
     args |-> << GuardArg,
                 [kind |-> "const_val32", val |-> 1],
                 [kind |-> "const_val64", val |-> c] >>]

\* nvbit_insert_call(i, "count_instrs", IPOINT_BEFORE) and its three
\* arguments; c names the counter whose address is passed
InsertCall(c) ==
    [func |-> "count_instrs", ipoint |-> "IPOINT_BEFORE",
     args |-> << GuardArg,
                 [kind |-> "const_val32", val |-> count_warp_level],
                 [kind |-> "const_val64", val |-> c] >>]

\* the calls inserted before one eligible instruction, in insertion order
NewProbes(i) ==
    (IF IsIndirect(i) THEN <<InsertCall("indirect")>> ELSE <<>>)
    \o (IF IsShfl(i) THEN <<InsertCall("shfl")>> ELSE <<>>)
    \o (IF IsBallot(i) THEN <<InsertCall("ballot")>> ELSE <<>>)
    \o <<InsertCall("instr")>>

\* the body of the loop over the instructions of f
InstrumentInstrs(f, pr) ==
    [pr EXCEPT ![f] =
        [k \in DOMAIN nvbit_get_instrs(f) |->
            IF Eligible(nvbit_get_instrs(f)[k])
            THEN pr[f][k] \o NewProbes(nvbit_get_instrs(f)[k])
            ELSE pr[f][k]]]

\* the set insertion's outcome ignored: every function taken as new
InsertAlwaysNew(f, set) == TRUE

\* already_instrumented.insert(f).second
InsertIsNew(f, set) == f \notin set

\* the loop over related_functions, carrying the set and the probes
RECURSIVE InstrumentAll(_, _, _)
InstrumentAll(fs, set, pr) ==
    IF fs = <<>>
    THEN [set |-> set, probes |-> pr]
    ELSE IF ~InsertIsNew(Head(fs), set)
         THEN InstrumentAll(Tail(fs), set, pr)
         ELSE InstrumentAll(Tail(fs), set \cup {Head(fs)},
                            InstrumentInstrs(Head(fs), pr))

instrument_function_if_needed(func) ==
    InstrumentAll(Append(nvbit_get_related_functions(func), func),
                  already_instrumented, probes)

(* --------------------------- device execution -------------------------- *)
\* the instructions one warp of a kernel executes: the kernel's own, then
\* those of the device functions it calls
PathOf(f) == [n \in DOMAIN nvbit_get_instrs(f) |-> <<f, n>>]

RECURSIVE PathOfAll(_)
PathOfAll(fs) ==
    IF fs = <<>> THEN <<>> ELSE PathOf(Head(fs)) \o PathOfAll(Tail(fs))

ExecPath(f) == PathOf(f) \o PathOfAll(nvbit_get_related_functions(f))

\* the injected device function: one increment per warp with a lane whose
\* predicate holds, or one per such lane
count_instrs(predLanes, cwl) ==
    IF cwl # 0 THEN (IF predLanes > 0 THEN 1 ELSE 0) ELSE predLanes

\* lanes that pass the guard argument of probe p before instruction i
GuardLanes(p, i) ==
    IF p.args[1].kind = "guard_pred_val"
    THEN i.predOn
    ELSE IF p.args[1].val # 0 THEN i.lanes ELSE 0

\* what the probes ps before instruction i add to counter c
RECURSIVE ProbeDelta(_, _, _)
ProbeDelta(ps, i, c) ==
    IF ps = <<>> THEN 0
    ELSE (IF Head(ps).args[3].val = c
          THEN count_instrs(GuardLanes(Head(ps), i), Head(ps).args[2].val)
          ELSE 0) + ProbeDelta(Tail(ps), i, c)

KernelDone(kn) ==
    IF kn.func = "none" THEN TRUE ELSE kn.kpc = Len(ExecPath(kn.func))

VecAdd(a, b) == [c \in Cats |-> a[c] + b[c]]

\* one warp of thread t's kernel executes its next instruction
KernelStep(t) ==
    /\ kernel[t].func # "none"
    /\ ~KernelDone(kernel[t])
    /\ LET e == ExecPath(kernel[t].func)[kernel[t].kpc + 1]
           i == nvbit_get_instrs(e[1])[e[2]]
           d == [c \in Cats |->
                    IF kernel[t].instrumented
                    THEN ProbeDelta(probes[e[1]][e[2]], i, c) ELSE 0]
       IN /\ instr_counter' = instr_counter + d["instr"]
          /\ indirect_counter' = indirect_counter + d["indirect"]
          /\ shfl_counter' = shfl_counter + d["shfl"]
          /\ ballot_counter' = ballot_counter + d["ballot"]
          /\ origin' = [origin EXCEPT ![t] = VecAdd(@, d)]
          /\ events' = VecAdd(events, d)
    /\ kernel' = [kernel EXCEPT ![t].kpc = @ + 1]
    /\ UNCHANGED <<process, config, kernel_id, totals, total_cg,
                   active_region, mutex, nvbit, pc, call, cg_reg, launches,
                   hist, folds, mark, cg_exited, last_signal>>

(* --------------------------- region controller ------------------------- *)
\* kernel_id >= start_grid_num && kernel_id < end_grid_num
InGridInterval(k) == k >= start_grid_num /\ k < end_grid_num

\* active_region after the entry phase recomputed it (or left it alone)
RegionAtEntry ==
    IF active_from_start # 0 THEN InGridInterval(kernel_id) ELSE active_region

\* the profiler callbacks without their test of active_from_start
ProfilerAlwaysControls == TRUE

\* cuProfilerStart / cuProfilerStop touch active_region only in signal mode
ProfilerControlsRegion == active_from_start = 0

(* --------------------------- launch interceptor ------------------------ *)
LaunchCbids == {"cuLaunchKernel"}
CoopCbids == {"cuLaunchCooperativeKernel"}

\* a lock that is taken without waiting for its owner to release it
lock_without_wait(t) == mutex' = t

\* a lock that is released again before the entry callback returns
lock_not_held(t) == mutex = NoThread /\ mutex' = NoThread

\* a trylock whose failure is ignored
lock_try_only(t) == mutex' = IF mutex = NoThread THEN t ELSE mutex

\* pthread_mutex_lock: blocks until the mutex is free, then owns it
pthread_mutex_lock(t) == mutex = NoThread /\ mutex' = t

\* the exit returning without the unlock
unlock_missing(t) == mutex' = mutex

\* pthread_mutex_unlock
pthread_mutex_unlock(t) == mutex' = NoThread

\* the reset left out: the counter keeps its value
KeepCounter(c) == c

\* instr_counter = 0 and its three siblings
ResetCounter(c) == 0

\* the fold written as an assignment
FoldOverwrite(total, counter) == counter

\* total += counter
Fold(total, counter) == total + counter

\* a synchronisation that returns without waiting for the device
no_wait_for_device == TRUE

\* cudaDeviceSynchronize returns once no kernel is running on the device
DeviceIdle == \A u \in Threads : KernelDone(kernel[u])

\* a host thread makes a launch driver call; the entry callback of a
\* cooperative launch does nothing, that of a regular launch goes for the mutex
LaunchCall(t, f, cbid) ==
    /\ pc[t] = "idle"
    /\ launches < MaxLaunches
    /\ launches' = launches + 1
    /\ call' = [call EXCEPT ![t] = [func |-> f, cbid |-> cbid]]
    /\ pc' = [pc EXCEPT ![t] = IF cbid \in LaunchCbids THEN "entry" ELSE "cg_call"]
    /\ UNCHANGED <<process, config, kernel_id, totals, total_cg,
                   active_region, mutex, counters, nvbit, cg_reg, kernel,
                   hist, folds, origin, events, mark, cg_exited, last_signal>>

\* entry callback of a regular launch (is_exit = 0), and the launch itself
LaunchEntry(t) ==
    /\ pc[t] = "entry"
    /\ pthread_mutex_lock(t)
    /\ LET func == call[t].func
           r == instrument_function_if_needed(func)
       IN /\ already_instrumented' = r.set
          /\ probes' = r.probes
          /\ active_region' = RegionAtEntry
          /\ enabled' = [enabled EXCEPT ![func] = RegionAtEntry]
          /\ kernel' = [kernel EXCEPT ![t] =
                  [func |-> func, instrumented |-> RegionAtEntry, kpc |-> 0]]
          /\ hist' = Append(hist, [t |-> t, func |-> func, kid |-> kernel_id,
                                   instrumented |-> RegionAtEntry])
    /\ instr_counter' = ResetCounter(instr_counter)
    /\ indirect_counter' = ResetCounter(indirect_counter)
    /\ shfl_counter' = ResetCounter(shfl_counter)
    /\ ballot_counter' = ResetCounter(ballot_counter)
    /\ origin' = [u \in Threads |-> ZeroVec]
    /\ mark' = [mark EXCEPT ![t] = events]
    /\ pc' = [pc EXCEPT ![t] = "launched"]
    /\ UNCHANGED <<process, config, kernel_id, totals, total_cg, call, cg_reg,
                   launches, folds, events, cg_exited, last_signal>>

\* CUDA_SAFECALL(call): go on if the call succeeded, else end the process
CUDA_SAFECALL(ok) == IF ok THEN "synced" ELSE "aborted"

\* exit callback of a regular launch, first half: CUDA_SAFECALL(cudaDeviceSynchronize())
ExitSync(t) ==
    /\ pc[t] = "launched"
    /\ DeviceIdle
    /\ pc' = [pc EXCEPT ![t] = CUDA_SAFECALL(TRUE)]
    /\ UNCHANGED <<process, config, kernel_id, totals, total_cg,
                   active_region, mutex, counters, nvbit, call, cg_reg,
                   kernel, history>>

\* the synchronisation called bare: its failure is not looked at and the
\* exit goes on to the fold
sync_failure_ignored(t) ==
    /\ pc[t] = "launched"
    /\ device_error' = TRUE
    /\ pc' = [pc EXCEPT ![t] = "synced"]
    /\ UNCHANGED <<report, config, kernel_id, totals, total_cg, active_region,
                   mutex, counters, nvbit, call, cg_reg, kernel, history>>

\* exit callback of a regular launch whose cudaDeviceSynchronize fails
ExitSyncFail(t) ==
    /\ pc[t] = "launched"
    /\ device_error' = TRUE
    /\ pc' = [pc EXCEPT ![t] = CUDA_SAFECALL(FALSE)]
    /\ UNCHANGED <<report, config, kernel_id, totals, total_cg, active_region,
                   mutex, counters, nvbit, call, cg_reg, kernel, history>>

\* exit callback of a regular launch, second half: fold and unlock
ExitFold(t) ==
    /\ pc[t] = "synced"
    /\ total_instr' = Fold(total_instr, instr_counter)
    /\ total_indirect' = Fold(total_indirect, indirect_counter)
    /\ total_shfl' = Fold(total_shfl, shfl_counter)
    /\ total_ballot' = Fold(total_ballot, ballot_counter)
    /\ folds' = Append(folds, CounterVec)
    /\ pthread_mutex_unlock(t)
    /\ pc' = [pc EXCEPT ![t] = "idle"]
    /\ call' = [call EXCEPT ![t] = NoCall]
    /\ UNCHANGED <<process, config, kernel_id, total_cg, active_region,
                   counters, nvbit, cg_reg, kernel, launches, hist, origin,
                   events, mark, cg_exited, last_signal>>

\* exit callback of a cooperative launch: total_cg += 1 is a load ...
CoopExitLoad(t) ==
    /\ pc[t] = "cg_call"
    /\ cg_reg' = [cg_reg EXCEPT ![t] = total_cg]
    /\ pc' = [pc EXCEPT ![t] = "cg_store"]
    /\ UNCHANGED <<process, config, kernel_id, totals, total_cg,
                   active_region, mutex, counters, nvbit, call, kernel,
                   history>>

\* ... and a store, with no lock held between the two
CoopExitStore(t) ==
    /\ pc[t] = "cg_store"
    /\ total_cg' = cg_reg[t] + 1
    /\ cg_exited' = cg_exited + 1
    /\ pc' = [pc EXCEPT ![t] = "idle"]
    /\ call' = [call EXCEPT ![t] = NoCall]
    /\ UNCHANGED <<process, config, kernel_id, totals, active_region, mutex,
                   counters, nvbit, cg_reg, kernel, launches, hist, folds,
                   origin, events, mark, last_signal>>

\* exit callback of cuProfilerStart
ProfilerStart(t) ==
    /\ pc[t] = "idle"
    /\ last_signal # "start"
    /\ active_region' = IF ProfilerControlsRegion THEN TRUE ELSE active_region
    /\ last_signal' = "start"
    /\ UNCHANGED <<process, config, kernel_id, totals, total_cg, mutex,
                   counters, nvbit, pc, call, cg_reg, kernel, launches, hist,
                   folds, origin, events, mark, cg_exited>>

\* a stop signal that also switches the kernels in flight to the unmodified
\* variant
ProfilerStopDisables(t) ==
    /\ pc[t] = "idle"
    /\ last_signal # "stop"
    /\ active_region' = IF ProfilerControlsRegion THEN FALSE ELSE active_region
    /\ last_signal' = "stop"
    /\ kernel' = [u \in Threads |-> [kernel[u] EXCEPT !.instrumented = FALSE]]
    /\ UNCHANGED <<process, config, kernel_id, totals, total_cg, mutex,
                   counters, nvbit, pc, call, cg_reg, launches, hist, folds,
                   origin, events, mark, cg_exited>>

\* exit callback of cuProfilerStop
ProfilerStop(t) ==
    /\ pc[t] = "idle"
    /\ last_signal # "stop"
    /\ active_region' = IF ProfilerControlsRegion THEN FALSE ELSE active_region
    /\ last_signal' = "stop"
    /\ UNCHANGED <<process, config, kernel_id, totals, total_cg, mutex,
                   counters, nvbit, pc, call, cg_reg, kernel, launches, hist,
                   folds, origin, events, mark, cg_exited>>

\* the summary printed at process termination, in print order
nvbit_at_term ==
    /\ \A t \in Threads : pc[t] = "idle"
    /\ report' = << total_indirect, total_cg, total_instr, total_shfl,
                    total_ballot >>
    /\ UNCHANGED <<device_error, config, kernel_id, totals, total_cg,
                   active_region, mutex, counters, nvbit, pc, call, cg_reg,
                   kernel, history>>

\* the process has neither terminated nor been ended by a failed call
Running == report = NoReport /\ \A t \in Threads : pc[t] # "aborted"

\* the callbacks of a process in which every synchronisation succeeds
Next ==
    \E t \in Threads :
        \/ \E f \in Kernels : LaunchCall(t, f, "cuLaunchKernel")
        \/ \E f \in Kernels : LaunchCall(t, f, "cuLaunchCooperativeKernel")
        \/ LaunchEntry(t)
        \/ KernelStep(t)
        \/ ExitSync(t)
        \/ ExitFold(t)
        \/ CoopExitLoad(t)
        \/ CoopExitStore(t)
        \/ ProfilerStart(t)
        \/ ProfilerStop(t)

Spec == Init /\ [][Next]_vars

\* the launch callbacks and the termination when every synchronisation
\* succeeds
NextLive ==
    /\ Running
    /\ \/ \E t \in Threads :
            \/ \E f \in Kernels : LaunchCall(t, f, "cuLaunchKernel")
            \/ \E f \in Kernels : LaunchCall(t, f, "cuLaunchCooperativeKernel")
            \/ LaunchEntry(t)
            \/ KernelStep(t)
            \/ ExitSync(t)
            \/ ExitFold(t)
            \/ CoopExitLoad(t)
            \/ CoopExitStore(t)
       \/ nvbit_at_term

\* fair scheduling: a kernel in flight keeps executing, the host delivers the
\* exit of every launch and the exit callback runs to its end, and a thread
\* waiting for a mutex that is free again and again gets it
Fairness ==
    \A t \in Threads :
        /\ WF_vars(KernelStep(t) \/ ExitSync(t) \/ ExitFold(t))
        /\ SF_vars(LaunchEntry(t))

\* a run with the default settings
InitLive ==
    /\ instr_begin_interval = 0 /\ instr_end_interval = UintMax
    /\ start_grid_num = 0 /\ end_grid_num = UintMax
    /\ count_warp_level = 1
    /\ exclude_pred_off = 0
    /\ active_from_start = 1
    /\ InitState

SpecLive == InitLive /\ [][NextLive]_vars /\ Fairness

\* the whole life of the process: the callbacks, a synchronisation that
\* fails, and the termination
NextProcess ==
    /\ Running
    /\ \/ Next
       \/ \E t \in Threads : ExitSyncFail(t)
       \/ nvbit_at_term

SpecProcess == InitLive /\ [][NextProcess]_vars

\* a single host thread launching regular kernels one after the other
NextSeq ==
    \/ \E f \in Kernels : LaunchCall(1, f, "cuLaunchKernel")
    \/ LaunchEntry(1)
    \/ KernelStep(1)
    \/ ExitSync(1)
    \/ ExitFold(1)

SpecInstr == InitInstr /\ [][NextSeq]_vars

\* a single host thread launching the ten-instruction kernel, profiler
\* signals arriving between launches
NextScenario ==
    \/ LaunchCall(1, "k10", "cuLaunchKernel")
    \/ LaunchEntry(1)
    \/ KernelStep(1)
    \/ ExitSync(1)
    \/ ExitFold(1)
    \/ ProfilerStart(1)
    \/ ProfilerStop(1)

SpecScenario == InitScenario /\ [][NextScenario]_vars

\* the host threads launching the one-instruction ballot kernel
NextBallot ==
    \E t \in Threads :
        \/ LaunchCall(t, "kv", "cuLaunchKernel")
        \/ LaunchEntry(t)
        \/ KernelStep(t)
        \/ ExitSync(t)
        \/ ExitFold(t)

SpecBallot == InitBallot /\ [][NextBallot]_vars

(* ------------------------------ properties ----------------------------- *)
\* thread t is between the entry phase and the matching exit phase of a
\* regular launch
InWindow(t) == pc[t] \in {"launched", "synced", "aborted"}

VecSub(a, b) == [c \in Cats |-> a[c] - b[c]]

RECURSIVE SumVecs(_)
SumVecs(vs) == IF vs = <<>> THEN ZeroVec ELSE VecAdd(Head(vs), SumVecs(Tail(vs)))

\* C1: at most one regular launch is between its entry and its exit, that
\* launch owns the mutex, and a launch waiting at its entry stays outside the
\* window until the owner's exit has released the mutex.
C1_OneLaunchInWindow ==
    /\ \A t, u \in Threads : InWindow(t) /\ InWindow(u) => t = u
    /\ \A t \in Threads : InWindow(t) => mutex = t
    /\ (\A t \in Threads : ~InWindow(t)) => mutex = NoThread

\* a launch is in its window with its kernel running while the other
\* thread's launch waits at its entry
C1_Witness ==
    \E t, u \in Threads :
        /\ pc[t] = "launched" /\ kernel[t].kpc > 0
        /\ pc[u] = "entry"

C3_ResetAtEntry ==
    \A t \in Threads :
        /\ (pc[t] = "launched" /\ kernel[t].kpc = 0) => CounterVec = ZeroVec
        /\ pc[t] = "synced" => CounterVec = VecSub(events, mark[t])

\* a launch outside the active region is about to fold after an earlier
\* launch folded a non-zero count
C3_Witness ==
    \E t \in Threads :
        /\ pc[t] = "synced"
        /\ ~hist[Len(hist)].instrumented
        /\ Len(folds) >= 1 /\ folds[1]["instr"] > 0

\* C4: the four totals equal the sums of the counter values read at the
\* regular exits so far, and no step decreases any of them.
C4_TotalsAreSums ==
    /\ [](TotalVec = SumVecs(folds))
    /\ [][\A c \in Cats : TotalVec'[c] >= TotalVec[c]]_vars

\* two regular launches have folded non-zero counts
C4_Witness ==
    /\ Len(folds) >= 2
    /\ folds[1]["instr"] > 0 /\ folds[2]["instr"] > 0
    /\ total_instr = folds[1]["instr"] + folds[2]["instr"]

\* C5: with ACTIVE_FROM_START=1 the kernel sequence index grows by one at
\* every launch entry, so the k-th launch (0-based) reads index k and runs
\* instrumented exactly when start_grid_num <= k < end_grid_num.
C5_VariantByOrdinal ==
    active_from_start = 1 =>
        \A n \in DOMAIN hist :
            /\ hist[n].kid = n - 1
            /\ hist[n].instrumented <=> InGridInterval(n - 1)

\* C6: in the scenario, launch 0 adds 10 to the instruction total, launches
\* 1 and 2 add nothing, and after the three launches the instruction total
\* is 10 and the other three totals are 0.
C6_ScenarioTotals ==
    /\ Len(folds) >= 1 => folds[1]["instr"] = 10
    /\ \A n \in DOMAIN folds : n > 1 => folds[n]["instr"] = 0
    /\ Len(folds) = 3 =>
          /\ total_instr = 10
          /\ total_indirect = 0 /\ total_shfl = 0 /\ total_ballot = 0

\* what a single call of instrument_function_if_needed inserts before the
\* k-th instruction of f, starting from nothing instrumented
ProbesOfOneCall(f, k) ==
    InstrumentAll(<<f>>, {},
        [g \in Funcs |-> [n \in DOMAIN nvbit_get_instrs(g) |-> <<>>]]).probes[f][k]

\* C7: however often a function went through instrument_function_if_needed,
\* as the launched kernel or as a related function, each of its instructions
\* carries the probes of a single call.
C7_InstrumentedOnce ==
    \A f \in Funcs : \A k \in DOMAIN nvbit_get_instrs(f) :
        probes[f][k] =
            IF f \in already_instrumented THEN ProbesOfOneCall(f, k) ELSE <<>>

\* a kernel was launched twice and then a different kernel that shares the
\* device function, all three probed
C7_Witness ==
    /\ Len(hist) >= 3
    /\ hist[1].func = hist[2].func /\ hist[3].func # hist[1].func
    /\ \E k \in DOMAIN probes["dev"] : probes["dev"][k] # <<>>

\* C8: no instruction whose index is below instr_begin_interval or at or
\* above instr_end_interval carries a probe; with begin > end no instruction
\* of any function carries one.
C8_NoProbeOutsideInterval ==
    /\ \A f \in Funcs : \A k \in DOMAIN nvbit_get_instrs(f) :
          (nvbit_get_instrs(f)[k].idx < instr_begin_interval
             \/ nvbit_get_instrs(f)[k].idx >= instr_end_interval)
          => probes[f][k] = <<>>
    /\ instr_begin_interval > instr_end_interval =>
          \A f \in Funcs : \A k \in DOMAIN nvbit_get_instrs(f) : probes[f][k] = <<>>

\* a function was instrumented whose middle instruction is inside the
\* interval and probed, the one before and the one after outside it
C8_Witness ==
    /\ "k2" \in already_instrumented
    /\ instr_begin_interval = 1 /\ instr_end_interval = 2
    /\ probes["k2"][2] # <<>>
    /\ probes["k2"][1] = <<>> /\ probes["k2"][3] = <<>>

\* C9: with ACTIVE_FROM_START=1 no profiler start or stop changes
\* active_region or the variant selected for any function, and each launch
\* runs the variant the launch interval gives for the index it read; with
\* ACTIVE_FROM_START=0 no launch entry changes active_region.
C9_RegionModeExclusive ==
    /\ [][ /\ (active_from_start = 1
                 /\ \E t \in Threads : ProfilerStart(t) \/ ProfilerStop(t))
              => (active_region' = active_region /\ enabled' = enabled)
           /\ (active_from_start = 0 /\ \E t \in Threads : LaunchEntry(t))
              => active_region' = active_region ]_vars
    /\ [](active_from_start = 1 =>
             \A n \in DOMAIN hist :
                 hist[n].instrumented <=> InGridInterval(hist[n].kid))

\* in interval mode a stop signal was the last signal delivered, and a launch
\* is in flight as the instrumented variant with the region still active
C9_Witness ==
    \E t \in Threads :
        /\ active_from_start = 1 /\ last_signal = "stop"
        /\ pc[t] = "launched" /\ kernel[t].instrumented /\ active_region

\* C10: whenever no cooperative exit is in the middle of its increment,
\* total_cg equals the number of cooperative launches that have exited, and
\* the four instruction totals are the sums of the regular folds alone.
C10_CoopTotal ==
    (\A t \in Threads : pc[t] # "cg_store") =>
        /\ total_cg = cg_exited
        /\ TotalVec = SumVecs(folds)

\* the instruction's index lies in [instr_begin_interval, instr_end_interval)
InInterval(i) == instr_begin_interval <= i.idx /\ i.idx < instr_end_interval

\* the operand text of an instruction: its SASS text after the first blank
OperandText(i) ==
    LET b == CHOOSE k \in DOMAIN i.sass :
                 i.sass[k] = " " /\ \A j \in 1..(k - 1) : i.sass[j] # " "
    IN SubSeq(i.sass, b + 1, Len(i.sass))

\* the probes among ps that pass the address of counter c
ProbesOn(ps, c) == SelectSeq(ps, LAMBDA p : p.args[3].val = c)

\* C11: an instruction of an instrumented function carries a probe on the
\* indirect counter exactly when it is eligible, its opcode is "CALL.ABS"
\* and its operand text contains "R"; every eligible instruction, indirect
\* or not, carries the generic probe.
C11_IndirectClassification ==
    \A f \in already_instrumented : \A k \in DOMAIN nvbit_get_instrs(f) :
        LET i == nvbit_get_instrs(f)[k]
        IN /\ ProbesOn(probes[f][k], "indirect") # <<>>
                <=> /\ InInterval(i)
                    /\ i.opcode = "CALL.ABS"
                    /\ Contains(OperandText(i), "R")
           /\ InInterval(i) => Len(ProbesOn(probes[f][k], "instr")) = 1

\* instrumented and eligible: a CALL.ABS on a register with the indirect
\* probe, a CALL.ABS on an address and a VOTE.BALL on a register without it,
\* each with its generic probe
C11_Witness ==
    /\ {"k1", "k2"} \subseteq already_instrumented
    /\ ProbesOn(probes["k1"][1], "indirect") # <<>>
    /\ ProbesOn(probes["k2"][2], "indirect") = <<>>
    /\ ProbesOn(probes["k2"][2], "instr") # <<>>
    /\ ProbesOn(probes["k2"][1], "indirect") = <<>>
    /\ ProbesOn(probes["k2"][1], "instr") # <<>>
    /\ Contains(OperandText(nvbit_get_instrs("k2")[1]), "R")

\* C12: every launch of the kernel of one VOTE.BALL instruction, run
\* instrumented by one warp of 32 threads, adds 1 to the ballot total and 1
\* to the instruction total when count_warp_level is 1, and 32 to the ballot
\* total when it is 0.
C12_BallotCount ==
    /\ \A n \in DOMAIN hist : hist[n].instrumented
    /\ count_warp_level = 1 =>
          total_ballot = Len(folds) /\ total_instr = Len(folds)
    /\ count_warp_level = 0 => total_ballot = 32 * Len(folds)

\* a launch of the ballot kernel was folded with thread-level counting
C12_Witness ==
    /\ count_warp_level = 0
    /\ Len(folds) >= 1 /\ hist[1].func = "kv"
    /\ total_ballot >= 32

\* C13: a thread in the exit phase of a cooperative launch, between its read
\* and its write of total_cg, owns the mutex.
C13_CoopExitOwnsMutex ==
    \A t \in Threads : pc[t] = "cg_store" => mutex = t

\* C14: with ACTIVE_FROM_START=0, active_region is true exactly when the
\* last profiler signal delivered was a start (false before any signal), and
\* a launch entry selects the instrumented variant exactly in that case.
C14_SignalMode ==
    /\ [](active_from_start = 0 => (active_region <=> last_signal = "start"))
    /\ [][\A t \in Threads :
            (active_from_start = 0 /\ LaunchEntry(t))
            => (kernel'[t].instrumented <=> last_signal = "start")]_vars

\* in signal mode a launch entered after a start ran instrumented, a stop
\* followed, and the next launch entered ran unmodified
C14_Witness ==
    /\ active_from_start = 0 /\ last_signal = "stop"
    /\ Len(hist) >= 2
    /\ hist[1].instrumented /\ ~hist[2].instrumented

\* the categories among INDIRECT, SHUFFLE, BALLOT that instruction i matches
MatchedCats(i) ==
    {c \in {"indirect"} : i.opcode = "CALL.ABS" /\ Contains(i.sass, "R")}
    \cup {c \in {"shfl"} : i.opcodeShort = "SHFL"}
    \cup {c \in {"ballot"} : i.opcode = "VOTE.BALL"}

\* C15: every eligible instruction of an instrumented function carries
\* exactly 1 + (matched categories) probes, between 1 and 4, on pairwise
\* distinct counters, the generic one among them and the others those of the
\* matched categories; each probe has three arguments: the guard (the
\* predicate value if exclude_pred_off is set, else the constant 1), then
\* count_warp_level, then the counter's address.
C15_ProbesPerInstruction ==
    \A f \in already_instrumented : \A k \in DOMAIN nvbit_get_instrs(f) :
        LET i == nvbit_get_instrs(f)[k]
            ps == probes[f][k]
            targets == {ps[j].args[3].val : j \in DOMAIN ps}
        IN InInterval(i) =>
            /\ Len(ps) = 1 + Cardinality(MatchedCats(i))
            /\ Len(ps) >= 1 /\ Len(ps) <= 4
            /\ Cardinality(targets) = Len(ps)
            /\ targets = {"instr"} \cup MatchedCats(i)
            /\ \A j \in DOMAIN ps :
                  /\ ps[j].func = "count_instrs" /\ ps[j].ipoint = "IPOINT_BEFORE"
                  /\ Len(ps[j].args) = 3
                  /\ ps[j].args[1].kind =
                        (IF exclude_pred_off # 0 THEN "guard_pred_val"
                                                 ELSE "const_val32")
                  /\ exclude_pred_off = 0 => ps[j].args[1].val = 1
                  /\ ps[j].args[2].kind = "const_val32"
                  /\ ps[j].args[2].val = count_warp_level
                  /\ ps[j].args[3].kind = "const_val64"

\* with exclude_pred_off set, an instrumented kernel has an instruction of
\* one category with two probes and an instruction of none with one probe,
\* guarded by the predicate value
C15_Witness ==
    /\ exclude_pred_off = 1
    /\ "k2" \in already_instrumented
    /\ Len(probes["k2"][1]) = 2 /\ Len(probes["k2"][3]) = 1
    /\ probes["k2"][1][1].args[1].kind = "guard_pred_val"

\* C16: once the synchronisation of a launch's exit has returned, the
\* launched kernel has executed all its instructions, so the fold reads
\* counters that kernel no longer increments: a kernel executes an
\* instruction only while its launch has not passed the synchronisation.
C16_FoldAfterCompletion ==
    /\ [](\A t \in Threads :
             pc[t] = "synced" =>
                 kernel[t].func = call[t].func /\ KernelDone(kernel[t]))
    /\ [][\A t \in Threads : KernelStep(t) => pc[t] = "launched"]_vars

\* an exit has synchronised after its kernel, run instrumented, made probe
\* increments that the fold is about to read
C16_Witness ==
    \E t \in Threads :
        /\ pc[t] = "synced" /\ kernel[t].instrumented
        /\ kernel[t].kpc > 0 /\ instr_counter > 0

\* C17 as stated: every step that reads or writes the instrumented set or
\* the four totals is taken by a thread that holds the mutex; the step that
\* prints the summary reads the four totals.
C17_OnlyUnderMutex ==
    [][/\ \A t \in Threads : LaunchEntry(t) => mutex' = t
       /\ \A t \in Threads : ExitFold(t) => mutex = t
       /\ report' # report => mutex \in Threads]_vars

\* C17 amended: the instrumented set and the inserted probes change only in
\* the entry of the thread that has just taken the free mutex, the four
\* totals change only in the fold of the thread that holds it, and the one
\* other access is the summary of nvbit_at_term, which reads the totals with
\* the mutex free and no launch in progress.
C17_UnderMutexOrAtTerm ==
    [][/\ \A t \in Threads :
              LaunchEntry(t) => mutex = NoThread /\ mutex' = t
       /\ \A t \in Threads : ExitFold(t) => mutex = t
       /\ (already_instrumented' # already_instrumented \/ probes' # probes)
              => \E t \in Threads : LaunchEntry(t)
       /\ totals' # totals => \E t \in Threads : ExitFold(t)
       /\ report' # report =>
              /\ mutex = NoThread
              /\ \A t \in Threads : pc[t] = "idle"
              /\ totals' = totals]_vars

\* the summary has been printed after two folds of instrumented launches
C17_Witness ==
    /\ report # NoReport
    /\ mutex = NoThread
    /\ Len(folds) >= 2
    /\ already_instrumented # {}
    /\ total_instr > 0
    /\ report[3] = total_instr

\* C18: when the synchronisation of an exit fails, the failing step folds
\* nothing and changes no total, no step is taken afterwards (no fold, no
\* launch entry, no exit), and no summary is ever printed.
C18_SyncFailureAborts ==
    /\ [][device_error' /\ ~device_error =>
              /\ totals' = totals /\ total_cg' = total_cg
              /\ folds' = folds /\ mutex' = mutex]_vars
    /\ [][~device_error]_vars
    /\ [](device_error => report = NoReport)

\* a synchronisation has failed with counters not yet folded, after an
\* earlier fold, while another thread waits at the entry of its launch
C18_Witness ==
    \E t, u \in Threads :
        /\ device_error
        /\ pc[t] = "aborted" /\ mutex = t
        /\ pc[u] = "entry"
        /\ instr_counter > 0
        /\ Len(folds) > 0 /\ total_instr > 0

\* what the probes inserted so far add to counter c over an execution path
RECURSIVE PathCount(_, _)
PathCount(path, c) ==
    IF path = <<>> THEN 0
    ELSE LET e == Head(path)
         IN ProbeDelta(probes[e[1]][e[2]], nvbit_get_instrs(e[1])[e[2]], c)
                + PathCount(Tail(path), c)

\* C19: in signal mode (active_from_start = 0) the entry of a launch picks
\* the variant from active_region as it is then; a profiler start or stop
\* signal changes neither the kernels in flight, nor the enabled variants,
\* nor the device counters, nor the mutex; and at the end of the launch the
\* counters hold the whole count of the variant picked at entry, whatever
\* active_region has become.
C19_SignalInFlight ==
    /\ [][\A t \in Threads :
              active_from_start = 0 /\ LaunchEntry(t) =>
                  kernel'[t].instrumented = active_region]_vars
    /\ [][\A u \in Threads :
              active_from_start = 0 /\ (ProfilerStart(u) \/ ProfilerStop(u)) =>
                  /\ kernel' = kernel /\ enabled' = enabled
                  /\ counters' = counters /\ mutex' = mutex]_vars
    /\ [](\A t \in Threads :
             active_from_start = 0 /\ pc[t] = "synced" =>
                 /\ hist[Len(hist)].t = t
                 /\ kernel[t].instrumented = hist[Len(hist)].instrumented
                 /\ \A c \in Cats :
                        CounterVec[c] =
                            IF kernel[t].instrumented
                            THEN PathCount(ExecPath(kernel[t].func), c)
                            ELSE 0)

\* in signal mode a launch that entered with the region active has run
\* instrumented to its end although a stop signal arrived while it was in
\* flight
C19_Witness ==
    \E t \in Threads :
        /\ active_from_start = 0
        /\ pc[t] = "synced"
        /\ kernel[t].instrumented /\ ~active_region
        /\ last_signal = "stop"
        /\ instr_counter = PathCount(ExecPath(kernel[t].func), "instr")
        /\ instr_counter > 0

====
